---- MODULE Spec2Model ----
(***************************************************************************)
(* Model of CGDs/cgd_utils.py: the gradient vectorizer (vectorize_grad),    *)
(* the Hessian-vector-product oracle (Hvp_vec, zero_grad) and the two       *)
(* conjugate-gradient solvers (conjugate_gradient,                          *)
(* general_conjugate_gradient).                                             *)
(*                                                                          *)
(* Numbers are exact rationals <<n, d>> with d > 0 in lowest terms, plus    *)
(* the IEEE specials NaN = <<0,0>>, +inf = <<1,0>>, -inf = <<-1,0>>.        *)
(* Rounding and signed zeros are not modelled.  Tensors are sequences of    *)
(* numbers; an optional value (Python None) is <<>> and a present value v   *)
(* is <<v>>.                                                                *)
(*                                                                          *)
(* The definitions follow src/src/CGDs/cgd_utils.py.  The older copy        *)
(* src/CGDs/cgd_utils.py has the same solvers without the accumulation      *)
(* mode of the oracle.                                                      *)
(*                                                                          *)
(* Three scenarios: Spec (one solve call), SpecPair (both solvers on the    *)
(* same arguments), SpecOracle (Hvp_vec and vectorize_grad called directly).*)
(***************************************************************************)
EXTENDS Integers, Sequences, FiniteSets, TLC

\* ------------------------------------------------------------------------
\* Bounds of the model
\* ------------------------------------------------------------------------
MaxSteps == 2      \* explicit step caps nsteps range over 1..MaxSteps

Dims == {1, 2}     \* tensor lengths that occur

\* ------------------------------------------------------------------------
\* Exact arithmetic with IEEE specials
\* ------------------------------------------------------------------------
Abs(n) == IF n < 0 THEN -n ELSE n

Sgn(n) == IF n < 0 THEN -1 ELSE IF n > 0 THEN 1 ELSE 0

RECURSIVE Gcd(_, _)
Gcd(a, b) == IF b = 0 THEN a ELSE Gcd(b, a % b)

\* lowest terms, positive denominator; denominator 0 encodes nan / +-inf
Norm(n, d) ==
    IF d = 0 THEN <<Sgn(n), 0>>
    ELSE LET g == Gcd(Abs(n), Abs(d))
         IN  <<(Sgn(d) * n) \div g, Abs(d) \div g>>

Q(n) == <<n, 1>>
NaN == <<0, 0>>
PInf == <<1, 0>>
Zero == Q(0)
One == Q(1)

IsNaN(a) == a = NaN
IsInf(a) == a[2] = 0 /\ a[1] # 0

NumAdd(a, b) ==
    IF IsNaN(a) \/ IsNaN(b) THEN NaN
    ELSE IF IsInf(a) /\ IsInf(b) THEN (IF a = b THEN a ELSE NaN)
    ELSE IF IsInf(a) THEN a
    ELSE IF IsInf(b) THEN b
    ELSE Norm(a[1] * b[2] + b[1] * a[2], a[2] * b[2])

NumNeg(a) == <<-a[1], a[2]>>

NumSub(a, b) == NumAdd(a, NumNeg(b))

NumMul(a, b) == Norm(a[1] * b[1], a[2] * b[2])

NumDiv(a, b) == Norm(a[1] * b[2] * Sgn(b[1]), a[2] * Abs(b[1]))

\* a < b as IEEE compares: false as soon as one side is nan
NumLt(a, b) ==
    IF IsNaN(a) \/ IsNaN(b) THEN FALSE
    ELSE IF IsInf(a) /\ IsInf(b) THEN a[1] < b[1]
    ELSE a[1] * b[2] < b[1] * a[2]

NumLe(a, b) == a = b \/ NumLt(a, b)

\* square root of a perfect-square rational (the only ones drawn as lr_x)
ISqrt(n) == CHOOSE s \in 0..n : s * s = n

NumSqrt(a) == IF a[2] = 0 \/ a[1] < 0 THEN (IF a = PInf THEN PInf ELSE NaN)
              ELSE <<ISqrt(a[1]), ISqrt(a[2])>>

\* ------------------------------------------------------------------------
\* Tensor (flat vector) operations of torch used by the code
\* ------------------------------------------------------------------------
Zeros(n) == [k \in 1..n |-> Zero]

HasNaN(v) == \E k \in 1..Len(v) : IsNaN(v[k])

VecAdd(u, v) == [k \in 1..Len(u) |-> NumAdd(u[k], v[k])]

VecSub(u, v) == [k \in 1..Len(u) |-> NumSub(u[k], v[k])]

Scale(c, v) == [k \in 1..Len(v) |-> NumMul(c, v[k])]

RECURSIVE DotFrom(_, _, _)
DotFrom(u, v, k) == IF k > Len(u) THEN Zero
                    ELSE NumAdd(NumMul(u[k], v[k]), DotFrom(u, v, k + 1))

Dot(u, v) == DotFrom(u, v, 1)

\* D is a sequence of rows; the product D v
MatVec(D, v) == [k \in 1..Len(D) |-> Dot(D[k], v)]

RECURSIVE SumSeq(_)
SumSeq(s) == IF s = <<>> THEN 0 ELSE Head(s) + SumSeq(Tail(s))

RECURSIVE Cat(_)
Cat(list) == IF list = <<>> THEN <<>> ELSE Head(list) \o Cat(Tail(list))

\* offset of parameter j in the flattened layout
Offset(sizes, j) == SumSeq(SubSeq(sizes, 1, j - 1))

Slice(v, sizes, j) == SubSeq(v, Offset(sizes, j) + 1, Offset(sizes, j) + sizes[j])

\* ------------------------------------------------------------------------
\* Gradient vectorizer and buffer clearing
\* A buffer list holds, per parameter, <<>> (p.grad is None) or <<g>>.
\* ------------------------------------------------------------------------
\* variant: the buffers are read but not deleted
vectorize_grad_KeepBuffers(sizes, grads) ==
    [vec   |-> Cat([j \in 1..Len(sizes) |->
                      IF grads[j] # <<>> THEN grads[j][1] ELSE Zeros(sizes[j])]),
     grads |-> grads]

vectorize_grad(sizes, grads) ==
    [vec   |-> Cat([j \in 1..Len(sizes) |->
                      IF grads[j] # <<>> THEN grads[j][1] ELSE Zeros(sizes[j])]),
     grads |-> [j \in 1..Len(sizes) |-> <<>>]]

zero_grad(sizes, grads) ==
    [j \in 1..Len(sizes) |->
        IF grads[j] # <<>> THEN <<Zeros(sizes[j])>> ELSE grads[j]]

\* ------------------------------------------------------------------------
\* The differentiation engine behind the oracle.  A graph G describes how
\* grad_vec depends on params: G.D is the Jacobian transposed (one row per
\* flattened element of params), G.sizes the parameter sizes, G.used[j]
\* whether parameter j occurs in the graph of grad_vec at all.
\* ------------------------------------------------------------------------
\* autograd.grad(..., allow_unused=True): per parameter <<>> or <<gradient>>
autograd_grad(G, vec) ==
    LET full == MatVec(G.D, vec)
    IN  [j \in 1..Len(G.sizes) |->
            IF G.used[j] THEN <<Slice(full, G.sizes, j)>> ELSE <<>>]

\* accumulation of the gradients gg into the buffers grads
Accumulate(G, grads, gg) ==
    [j \in 1..Len(G.sizes) |->
        IF gg[j] = <<>> THEN grads[j]
        ELSE IF grads[j] = <<>> THEN gg[j]
        ELSE <<VecAdd(grads[j][1], gg[j][1])>>]

\* autograd.backward(..., inputs=params): accumulates into the buffers
autograd_backward(G, grads, vec) == Accumulate(G, grads, autograd_grad(G, vec))

\* errors
NoErr == "none"
ErrGradNaN == "ValueError: Gradvec nan"
ErrVecNaN == "ValueError: vector nan"
ErrHvpNaN == "ValueError: hvp Nan"
ErrShape == "RuntimeError: CG: hessian vector product shape mismatch"
ErrAutograd == "RuntimeError: autograd: Mismatch in shape"
ErrTrigger == "TypeError: unsupported operand type(s) for *: 'float' and 'NoneType'"
ErrUnbound == "UnboundLocalError: i"
NonFiniteInput == {ErrGradNaN, ErrVecNaN}

HvpOut(err, hvp, grads, events) ==
    [err |-> err, hvp |-> hvp, grads |-> grads, events |-> events]

ReducerEvents(reducer, rebuild) ==
    IF reducer = <<>> THEN <<>>
    ELSE (IF rebuild THEN << <<reducer[1], "_rebuild_buckets">> >> ELSE <<>>)
         \o << <<reducer[1], "prepare_for_backward">> >>

\* the closing check of the result (vg.vec) and the return
Hvp_Return(vg, events) ==
    IF HasNaN(vg.vec) THEN HvpOut(ErrHvpNaN, <<>>, vg.grads, events)
    ELSE HvpOut(NoErr, vg.vec, vg.grads, events)

\* accumulation mode, after zero_grad (buffers g1) and the reducer calls (ev)
Hvp_Backward(grad_vec, G, g1, vec, trigger, ev) ==
    IF trigger = <<>> THEN HvpOut(ErrTrigger, <<>>, g1, ev)
    ELSE IF Len(vec) # Len(grad_vec) THEN HvpOut(ErrAutograd, <<>>, g1, ev)
    ELSE Hvp_Return(vectorize_grad(G.sizes, autograd_backward(G, g1, vec)),
                    ev \o << <<"autograd", "backward">> >>)

\* graph mode: zero padding for the gradients that are None
ZeroPad(G, grad_grad) ==
    Cat([j \in 1..Len(G.sizes) |->
           IF grad_grad[j] = <<>> THEN Zeros(G.sizes[j]) ELSE grad_grad[j][1]])

Hvp_Graph(grad_vec, G, grads, vec) ==
    IF Len(vec) # Len(grad_vec) THEN HvpOut(ErrAutograd, <<>>, grads, <<>>)
    ELSE Hvp_Return([vec |-> ZeroPad(G, autograd_grad(G, vec)), grads |-> grads],
                    << <<"autograd", "grad">> >>)

\* variant: accumulation mode clears the buffers before validating its inputs
Hvp_vec_ClearFirst(grad_vec, G, grads, vec, backward, trigger, reducer, rebuild) ==
    IF backward
    THEN IF HasNaN(grad_vec)
         THEN HvpOut(ErrGradNaN, <<>>, zero_grad(G.sizes, grads), <<>>)
         ELSE IF HasNaN(vec)
         THEN HvpOut(ErrVecNaN, <<>>, zero_grad(G.sizes, grads), <<>>)
         ELSE Hvp_Backward(grad_vec, G, zero_grad(G.sizes, grads), vec, trigger,
                           << <<"params", "zero_grad">> >>
                               \o ReducerEvents(reducer, rebuild))
    ELSE IF HasNaN(grad_vec) THEN HvpOut(ErrGradNaN, <<>>, grads, <<>>)
         ELSE IF HasNaN(vec) THEN HvpOut(ErrVecNaN, <<>>, grads, <<>>)
         ELSE Hvp_Graph(grad_vec, G, grads, vec)

\* Hvp_vec: grads are the buffers of params before the call; the result
\* carries the error raised (or NoErr), the returned vector, the buffers
\* after the call and the collaborator calls made, in order.
Hvp_vec(grad_vec, G, grads, vec, backward, trigger, reducer, rebuild) ==
    IF HasNaN(grad_vec) THEN HvpOut(ErrGradNaN, <<>>, grads, <<>>)
    ELSE IF HasNaN(vec) THEN HvpOut(ErrVecNaN, <<>>, grads, <<>>)
    ELSE IF backward
         THEN Hvp_Backward(grad_vec, G, zero_grad(G.sizes, grads), vec, trigger,
                           << <<"params", "zero_grad">> >>
                               \o ReducerEvents(reducer, rebuild))
         ELSE Hvp_Graph(grad_vec, G, grads, vec)

\* ------------------------------------------------------------------------
\* State
\* ------------------------------------------------------------------------
VARIABLES
    mode,   \* which scenario runs: "solve", "pair" or "oracle"
    inp,    \* the arguments of the solve call(s); fixed after Init
    run,    \* the solve call in progress (its locals, position and effects)
    run2,   \* "pair" only: the general_conjugate_gradient call on the same inp
    orc     \* "oracle" only: a parameter list, its buffers, the calls made

vars == <<mode, inp, run, run2, orc>>

\* program constants
WarnAfterCG == 99
WarnAfterGCG == 100

\* graphs of the two oracles of a solve:
\*   D_yx v = Hvp(grad_x, y_params, v),  D_xy w = Hvp(grad_y, x_params, w)
Gyx(in) == [D |-> in.Dyx, sizes |-> in.ysizes, used |-> in.yused]
Gxy(in) == [D |-> in.Dxy, sizes |-> in.xsizes, used |-> in.xused]

InitRun(in) ==
    [pc |-> "start", nsteps |-> 0, lr_x |-> in.lr_x,
     x |-> <<>>, r |-> <<>>, p |-> <<>>, h |-> <<>>,
     rdotr |-> Zero, residual_tol |-> Zero,
     i |-> -1,                      \* -1: the loop variable is not bound yet
     xg |-> in.xg0, yg |-> in.yg0,   \* gradient buffers of x_params, y_params
     calls |-> <<>>,                 \* oracle calls issued: <<grad_vec, vec>>
     events |-> <<>>,                \* collaborator calls made inside the oracle
     apps |-> 0,                     \* completed operator applications
     iters |-> 0,                    \* completed main-loop iterations
     warned |-> FALSE,
     ret |-> <<>>, err |-> NoErr]

Raise(s, e) == [s EXCEPT !.pc = "raised", !.err = e]

\* bookkeeping of one oracle call: which = "x" is Hvp(grad_x, y_params, .),
\* which = "y" is Hvp(grad_y, x_params, .)
Called(s, which, vec, out) ==
    [s EXCEPT !.calls = Append(@, <<which, vec>>),
              !.events = @ \o out.events,
              !.yg = IF which = "x" THEN out.grads ELSE @,
              !.xg = IF which = "y" THEN out.grads ELSE @]

Converged(rdotr, residual_tol, atol) ==
    NumLt(rdotr, residual_tol) \/ NumLt(rdotr, atol)

\* variant: the count is one more than the iterations performed
ReturnCount_PlusOne(i) == i + 2

\* the value returned for the step count after the loop
ReturnCount(i) == i + 1

\* ------------------------------------------------------------------------
\* conjugate_gradient, one operator per straight-line piece
\* ------------------------------------------------------------------------
cg_Hvp(in, s, which, vec) ==
    IF which = "x"
    THEN Hvp_vec(in.grad_x, Gyx(in), s.yg, vec, FALSE, <<>>, <<>>, FALSE)
    ELSE Hvp_vec(in.grad_y, Gxy(in), s.xg, vec, FALSE, <<>>, <<>>, FALSE)

cg_Start(in, s) ==
    LET n == IF in.nsteps = <<>> THEN Len(in.b) ELSE in.nsteps[1]
    IN  IF in.x0 = <<>>
        THEN [s EXCEPT !.nsteps = n, !.x = Zeros(Len(in.b)), !.r = in.b,
                       !.pc = "check"]
        ELSE [s EXCEPT !.nsteps = n, !.x = in.x0[1], !.pc = "warm_h1"]

\* after the first oracle call of a pair: h = hvp * lr_y
HalfDone(in, s, vec, out, next) ==
    IF out.err # NoErr THEN Raise(Called(s, "x", vec, out), out.err)
    ELSE [Called(s, "x", vec, out) EXCEPT !.h = Scale(in.lr_y, out.hvp),
                                          !.pc = next]

\* after the second oracle call of the warm start:
\* Avx = x + h2; r = b - Avx; nsteps -= 1
WarmDone(in, s, out) ==
    IF out.err # NoErr THEN Raise(Called(s, "y", s.h, out), out.err)
    ELSE [Called(s, "y", s.h, out) EXCEPT
            !.r = VecSub(in.b, VecAdd(s.x, Scale(s.lr_x, out.hvp))),
            !.nsteps = @ - 1, !.apps = @ + 1, !.pc = "check"]

cg_WarmH1(in, s) == HalfDone(in, s, s.x, cg_Hvp(in, s, "x", s.x), "warm_h2")

cg_WarmH2(in, s) == WarmDone(in, s, cg_Hvp(in, s, "y", s.h))

cg_Check(in, s) ==
    LET rdotr == Dot(s.r, s.r)
        residual_tol == NumMul(in.tol, Dot(in.b, in.b))
        t == [s EXCEPT !.p = s.r, !.rdotr = rdotr, !.residual_tol = residual_tol]
    IN  IF Converged(rdotr, residual_tol, in.atol)
        THEN [t EXCEPT !.ret = << [x |-> s.x, count |-> 1] >>, !.pc = "done"]
        ELSE [t EXCEPT !.pc = "loop"]

\* variant: the loop stops one iteration short of the cap
cg_LoopHead_Short(in, s) ==
    IF s.iters < s.nsteps - 1
    THEN [s EXCEPT !.i = s.iters, !.pc = "h_1"]
    ELSE [s EXCEPT !.pc = "after"]

\* for i in range(nsteps)
cg_LoopHead(in, s) ==
    IF s.iters < s.nsteps
    THEN [s EXCEPT !.i = s.iters, !.pc = "h_1"]
    ELSE [s EXCEPT !.pc = "after"]

cg_H1(in, s) == HalfDone(in, s, s.p, cg_Hvp(in, s, "x", s.p), "h_2")

\* beta = new_rdotr / rdotr; p = r + beta * p; rdotr = new_rdotr; break?
cg_Direction(in, s, new_rdotr) ==
    [s EXCEPT !.p = VecAdd(s.r, Scale(NumDiv(new_rdotr, s.rdotr), s.p)),
              !.rdotr = new_rdotr,
              !.apps = @ + 1, !.iters = @ + 1,
              !.pc = IF Converged(new_rdotr, s.residual_tol, in.atol)
                     THEN "after" ELSE "loop"]

\* x.data.add_(alpha * p); r.data.add_(- alpha * Avp_); new_rdotr = r.r
cg_Move(in, s, Avp_, alpha) ==
    LET r == VecAdd(s.r, Scale(NumNeg(alpha), Avp_))
    IN  cg_Direction(in, [s EXCEPT !.x = VecAdd(s.x, Scale(alpha, s.p)), !.r = r],
                     Dot(r, r))

\* alpha = rdotr / (p . Avp_)
cg_Update(in, s, Avp_) == cg_Move(in, s, Avp_, NumDiv(s.rdotr, Dot(s.p, Avp_)))

\* after the second oracle call of an iteration: Avp_ = p + h_2
cg_H2_Done(in, s, out) ==
    IF out.err # NoErr THEN Raise(Called(s, "y", s.h, out), out.err)
    ELSE cg_Update(in, Called(s, "y", s.h, out),
                   VecAdd(s.p, Scale(s.lr_x, out.hvp)))

cg_H2(in, s) == cg_H2_Done(in, s, cg_Hvp(in, s, "y", s.h))

\* if i > 99: warn; return x, i + 1   (i is unbound when the loop never ran)
cg_After(in, s) ==
    IF s.i = -1 THEN Raise(s, ErrUnbound)
    ELSE [s EXCEPT !.warned = s.i > WarnAfterCG,
                   !.ret = << [x |-> s.x, count |-> ReturnCount(s.i)] >>,
                   !.pc = "done"]

\* ------------------------------------------------------------------------
\* general_conjugate_gradient
\* ------------------------------------------------------------------------
gcg_Hvp(in, s, which, vec) ==
    IF which = "x"
    THEN Hvp_vec(in.grad_x, Gyx(in), s.yg, vec, in.backward, in.trigger,
                 in.y_reducer, in.rebuild)
    ELSE Hvp_vec(in.grad_y, Gxy(in), s.xg, vec, in.backward, in.trigger,
                 in.x_reducer, in.rebuild)

gcg_Start(in, s) ==
    LET n == IF in.nsteps = <<>> THEN Len(in.b) ELSE in.nsteps[1]
        t == [s EXCEPT !.lr_x = NumSqrt(in.lr_x), !.nsteps = n]
    IN  IF in.x0 = <<>>
        THEN [t EXCEPT !.x = Zeros(Len(in.b)), !.r = in.b, !.pc = "check"]
        ELSE [t EXCEPT !.x = in.x0[1], !.pc = "warm_h1"]

\* variant: the warm start is probed without the sqrt(lr_x) scaling
gcg_WarmH1_Unscaled(in, s) ==
    HalfDone(in, s, s.x, gcg_Hvp(in, s, "x", s.x), "warm_h2")

gcg_WarmH1(in, s) ==
    HalfDone(in, s, Scale(s.lr_x, s.x),
             gcg_Hvp(in, s, "x", Scale(s.lr_x, s.x)), "warm_h2")

gcg_WarmH2(in, s) == WarmDone(in, s, gcg_Hvp(in, s, "y", s.h))

gcg_Check(in, s) ==
    IF Len(in.grad_x) # Len(in.b) THEN Raise(s, ErrShape)
    ELSE
    LET rdotr == Dot(s.r, s.r)
        residual_tol == NumMul(in.tol, Dot(in.b, in.b))
        t == [s EXCEPT !.p = s.r, !.rdotr = rdotr, !.residual_tol = residual_tol]
    IN  IF Converged(rdotr, residual_tol, in.atol)
        THEN [t EXCEPT !.ret = << [x |-> s.x, count |-> 1] >>, !.pc = "done"]
        ELSE [t EXCEPT !.pc = "loop"]

gcg_LoopHead(in, s) ==
    IF s.iters < s.nsteps
    THEN [s EXCEPT !.i = s.iters, !.pc = "h_1"]
    ELSE [s EXCEPT !.pc = "after"]

gcg_H1(in, s) ==
    HalfDone(in, s, Scale(s.lr_x, s.p),
             gcg_Hvp(in, s, "x", Scale(s.lr_x, s.p)), "h_2")

\* beta = new_rdotr / rdotr; rdotr = new_rdotr; break? p = r + beta * p
gcg_Direction(in, s, new_rdotr) ==
    IF Converged(new_rdotr, s.residual_tol, in.atol)
    THEN [s EXCEPT !.rdotr = new_rdotr, !.apps = @ + 1, !.iters = @ + 1,
                   !.pc = "after"]
    ELSE [s EXCEPT !.p = VecAdd(s.r, Scale(NumDiv(new_rdotr, s.rdotr), s.p)),
                   !.rdotr = new_rdotr, !.apps = @ + 1, !.iters = @ + 1,
                   !.pc = "loop"]

\* x.data.add_(alpha * p); r.data.add_(- alpha * Avp_); new_rdotr = r.r
gcg_Move(in, s, Avp_, alpha) ==
    LET r == VecAdd(s.r, Scale(NumNeg(alpha), Avp_))
    IN  gcg_Direction(in, [s EXCEPT !.x = VecAdd(s.x, Scale(alpha, s.p)), !.r = r],
                      Dot(r, r))

\* alpha = rdotr / (p . Avp_)
gcg_Update(in, s, Avp_) == gcg_Move(in, s, Avp_, NumDiv(s.rdotr, Dot(s.p, Avp_)))

\* after the second oracle call of an iteration: Avp_ = p + h_2
gcg_H2_Done(in, s, out) ==
    IF out.err # NoErr THEN Raise(Called(s, "y", s.h, out), out.err)
    ELSE gcg_Update(in, Called(s, "y", s.h, out),
                    VecAdd(s.p, Scale(s.lr_x, out.hvp)))

gcg_H2(in, s) == gcg_H2_Done(in, s, gcg_Hvp(in, s, "y", s.h))

gcg_After(in, s) ==
    IF s.i = -1 THEN Raise(s, ErrUnbound)
    ELSE [s EXCEPT !.warned = s.i > WarnAfterGCG,
                   !.ret = << [x |-> s.x, count |-> ReturnCount(s.i)] >>,
                   !.pc = "done"]

\* ------------------------------------------------------------------------
\* The linear system a solve is about, as an explicit matrix (used to state
\* the properties and to draw the exact solution as a warm start; the
\* solvers never see it)
\* ------------------------------------------------------------------------
MatMul(A, B, ncols) == [k \in 1..Len(A) |-> [c \in 1..ncols |->
                           Dot(A[k], [m \in 1..Len(B) |-> B[m][c]])]]

Minor(M, col) == [k \in 1..(Len(M) - 1) |-> [c \in 1..(Len(M) - 1) |->
                     M[k + 1][IF c < col THEN c ELSE c + 1]]]

RECURSIVE Det(_)
RECURSIVE DetRow(_, _)
DetRow(M, col) ==
    IF col > Len(M) THEN Zero
    ELSE NumAdd(NumMul(NumMul(Q(IF col % 2 = 1 THEN 1 ELSE -1), M[1][col]),
                       Det(Minor(M, col))),
                DetRow(M, col + 1))
Det(M) == IF Len(M) = 0 THEN One ELSE DetRow(M, 1)

Leading(M, n) == [k \in 1..n |-> [c \in 1..n |-> M[k][c]]]

IsSPD(M) == /\ \A k, c \in 1..Len(M) : M[k][c] = M[c][k]
            /\ \A n \in 1..Len(M) : NumLt(Zero, Det(Leading(M, n)))

\* A = I + lr_x * D_xy * lr_y * D_yx   (both variants, scalar learning rates)
AMat(Dyx, Dxy, lr_x, lr_y, nx) ==
    LET M == MatMul(Dxy, Dyx, nx)
    IN  [k \in 1..nx |-> [c \in 1..nx |->
            NumAdd(IF k = c THEN One ELSE Zero,
                   NumMul(NumMul(lr_x, lr_y), M[k][c]))]]

\* Cramer's rule
ExactSol(A, b) ==
    [c \in 1..Len(A) |->
        NumDiv(Det([k \in 1..Len(A) |-> [m \in 1..Len(A) |->
                       IF m = c THEN b[k] ELSE A[k][m]]]),
               Det(A))]

A_of(in) == AMat(in.Dyx, in.Dxy, in.lr_x, in.lr_y, in.nx)

\* |A x - b|^2 computed from the matrix
Res2(in, x) == LET d == VecSub(MatVec(A_of(in), x), in.b) IN Dot(d, d)

\* ------------------------------------------------------------------------
\* Arguments of a solve call
\* ------------------------------------------------------------------------
YDims == {1}
DVals == {Zero, One}
BVals == {Zero, One}
TolVals == {<<1, 4>>}
AtolVals == {<<1, 16>>, <<2, 1>>}
LrPairs == {<<One, One>>, <<Q(4), One>>}

Ones(n) == [k \in 1..n |-> One]
NaNVec(n) == [k \in 1..n |-> IF k = 1 THEN NaN ELSE Zero]

WarmStarts(A, nx, b) ==
    {<<>>, <<Zeros(Len(b))>>, <<NaNVec(Len(b))>>}
    \cup (IF Len(b) = nx /\ Det(A) # Zero THEN {<<ExactSol(A, b)>>} ELSE {})

StepCaps == {<<>>} \cup {<<n>> : n \in 1..MaxSteps}

\* variant and oracle mode; trigger is a required argument of
\* general_conjugate_gradient, conjugate_gradient has no accumulation mode
Configs ==
    {[variant |-> "cg", backward |-> FALSE, reducers |-> FALSE, rebuild |-> FALSE, stale |-> FALSE],
     [variant |-> "gcg", backward |-> FALSE, reducers |-> FALSE, rebuild |-> FALSE, stale |-> FALSE]}
    \cup {[variant |-> "gcg", backward |-> TRUE, reducers |-> rd[1], rebuild |-> rd[2], stale |-> st] :
             rd \in {<<FALSE, FALSE>>, <<TRUE, FALSE>>, <<TRUE, TRUE>>}, st \in BOOLEAN}

DxyOf(Dyx, sign, nx, ny) ==
    [k \in 1..nx |-> Scale(Q(sign), [m \in 1..ny |-> Dyx[m][k]])]

MkInp(cf, nx, ny, Dyx, sign, gnan, b, x0, nsteps, tol, atol, lr) ==
    LET Dxy == DxyOf(Dyx, sign, nx, ny)
    IN  [variant |-> cf.variant, backward |-> cf.backward,
         trigger |-> <<One>>,
         x_reducer |-> IF cf.reducers THEN <<"x_reducer">> ELSE <<>>,
         y_reducer |-> IF cf.reducers THEN <<"y_reducer">> ELSE <<>>,
         rebuild |-> cf.rebuild,
         nx |-> nx, ny |-> ny, Dyx |-> Dyx, Dxy |-> Dxy,
         xsizes |-> [j \in 1..nx |-> 1], ysizes |-> <<ny>>,
         xused |-> [j \in 1..nx |-> Dxy[j] # Zeros(ny)],
         yused |-> << \E m \in 1..ny : Dyx[m] # Zeros(nx) >>,
         grad_x |-> [k \in 1..nx |-> IF gnan = "x" /\ k = 1 THEN NaN ELSE One],
         grad_y |-> [k \in 1..ny |-> IF gnan = "y" /\ k = 1 THEN NaN ELSE One],
         b |-> b, x0 |-> x0, nsteps |-> nsteps, tol |-> tol, atol |-> atol,
         lr_x |-> lr[1], lr_y |-> lr[2],
         xg0 |-> [j \in 1..nx |-> IF cf.stale THEN <<Ones(1)>> ELSE <<>>],
         yg0 |-> << IF cf.stale THEN <<Ones(ny)>> ELSE <<>> >>]

\* inp ranges over the arguments built from the configurations cfs and the
\* learning rates lrs
DrawInp(cfs, lrs) ==
    \E cf \in cfs, lr \in lrs, nx \in Dims, ny \in YDims, nb \in Dims,
       sign \in {1, -1}, gnan \in {"none", "x", "y"}, nsteps \in StepCaps,
       tol \in TolVals, atol \in AtolVals :
      \E Dyx \in [1..ny -> [1..nx -> DVals]], b \in [1..nb -> BVals] :
        \E x0 \in WarmStarts(AMat(Dyx, DxyOf(Dyx, sign, nx, ny), lr[1], lr[2], nx),
                             nx, b) :
          inp = MkInp(cf, nx, ny, Dyx, sign, gnan, b, x0, nsteps, tol, atol, lr)

IdleOrc == [sizes |-> <<>>, used |-> <<>>, D |-> <<>>, grad_vec |-> <<>>,
            grads |-> <<>>, prev_op |-> "none", prev_out |-> <<>>, last |-> <<>>]

\* ------------------------------------------------------------------------
\* One solve call
\* ------------------------------------------------------------------------
Init ==
    /\ mode = "solve"
    /\ DrawInp(Configs, LrPairs)
    /\ run = InitRun(inp)
    /\ run2 = InitRun(inp)
    /\ orc = IdleOrc

Step1(cgop, gcgop) == IF inp.variant = "cg" THEN cgop ELSE gcgop

Start ==
    /\ mode = "solve" /\ run.pc = "start"
    /\ run' = Step1(cg_Start(inp, run), gcg_Start(inp, run))
    /\ UNCHANGED <<mode, inp, run2, orc>>

WarmH1 ==
    /\ mode = "solve" /\ run.pc = "warm_h1"
    /\ run' = Step1(cg_WarmH1(inp, run), gcg_WarmH1(inp, run))
    /\ UNCHANGED <<mode, inp, run2, orc>>

WarmH2 ==
    /\ mode = "solve" /\ run.pc = "warm_h2"
    /\ run' = Step1(cg_WarmH2(inp, run), gcg_WarmH2(inp, run))
    /\ UNCHANGED <<mode, inp, run2, orc>>

Check ==
    /\ mode = "solve" /\ run.pc = "check"
    /\ run' = Step1(cg_Check(inp, run), gcg_Check(inp, run))
    /\ UNCHANGED <<mode, inp, run2, orc>>

LoopHead ==
    /\ mode = "solve" /\ run.pc = "loop"
    /\ run' = Step1(cg_LoopHead(inp, run), gcg_LoopHead(inp, run))
    /\ UNCHANGED <<mode, inp, run2, orc>>

H1 ==
    /\ mode = "solve" /\ run.pc = "h_1"
    /\ run' = Step1(cg_H1(inp, run), gcg_H1(inp, run))
    /\ UNCHANGED <<mode, inp, run2, orc>>

H2 ==
    /\ mode = "solve" /\ run.pc = "h_2"
    /\ run' = Step1(cg_H2(inp, run), gcg_H2(inp, run))
    /\ UNCHANGED <<mode, inp, run2, orc>>

After ==
    /\ mode = "solve" /\ run.pc = "after"
    /\ run' = Step1(cg_After(inp, run), gcg_After(inp, run))
    /\ UNCHANGED <<mode, inp, run2, orc>>

Next == Start \/ WarmH1 \/ WarmH2 \/ Check \/ LoopHead \/ H1 \/ H2 \/ After

Spec == Init /\ [][Next]_vars

Terminated(s) == s.pc \in {"done", "raised"}

\* ------------------------------------------------------------------------
\* Properties of one solve call
\* ------------------------------------------------------------------------
NaNFree(in) == /\ ~HasNaN(in.grad_x) /\ ~HasNaN(in.grad_y) /\ ~HasNaN(in.b)
               /\ in.x0 # <<>> => ~HasNaN(in.x0[1])

ShapesMatch(in) == Len(in.grad_x) = Len(in.b)

StepCap(in) == IF in.nsteps = <<>> THEN Len(in.b) ELSE in.nsteps[1]

C1Case == /\ mode = "solve" /\ inp.variant = "cg"
          /\ inp.x0 = <<>> /\ inp.nsteps = <<>>
          /\ NaNFree(inp) /\ ShapesMatch(inp)
          /\ IsSPD(A_of(inp))

C1Example == A_of(inp) = << <<Q(2)>> >> /\ inp.b = <<One>>

\* C1 as stated: a cold-started conjugate_gradient with the default step cap
\* on an SPD system returns x with |A x - b|^2 <= tol * (b.b) after at most
\* len(b) operator applications, and x = 1/2 for M = 1, b = 1.
C1_Original ==
    (C1Case /\ Terminated(run)) =>
        /\ run.ret # <<>>
        /\ NumLe(Res2(inp, run.ret[1].x), NumMul(inp.tol, Dot(inp.b, inp.b)))
        /\ run.apps <= Len(inp.b)
        /\ C1Example => run.ret[1].x = << <<1, 2>> >>

\* C1 amended: the returned x satisfies |A x - b|^2 <= tol * (b.b) or
\* |A x - b|^2 < atol (the absolute-tolerance exit), after at most len(b)
\* operator applications; x = 1/2 for M = 1, b = 1 when tol <= 1 and
\* atol <= 1.
C1_Amended ==
    (C1Case /\ Terminated(run)) =>
        /\ run.ret # <<>>
        /\ \/ NumLe(Res2(inp, run.ret[1].x), NumMul(inp.tol, Dot(inp.b, inp.b)))
           \/ NumLt(Res2(inp, run.ret[1].x), inp.atol)
        /\ run.apps <= Len(inp.b)
        /\ (C1Example /\ NumLe(inp.tol, One) /\ NumLe(inp.atol, One))
               => run.ret[1].x = << <<1, 2>> >>

\* a two-dimensional SPD solve that needed both iterations
C1_Witness == C1Case /\ run.pc = "done" /\ run.iters = 2 /\ inp.nx = 2
              /\ Res2(inp, run.ret[1].x) = Zero

C2Case == /\ mode = "solve" /\ inp.x0 # <<>>
          /\ NaNFree(inp) /\ ShapesMatch(inp)
          /\ MatVec(A_of(inp), inp.x0[1]) = inp.b

\* C2: a solve warm-started with the exact solution issues exactly two Hvp
\* calls (one operator application), passes the initial convergence check,
\* never enters the loop and returns (x*, 1).
C2_WarmExact ==
    C2Case =>
        /\ run.pc \in {"start", "warm_h1", "warm_h2", "check", "done"}
        /\ run.iters = 0 /\ run.i = -1
        /\ run.pc = "done" =>
              /\ run.ret = << [x |-> inp.x0[1], count |-> 1] >>
              /\ run.apps = 1 /\ Len(run.calls) = 2
              /\ run.calls[1][1] = "x" /\ run.calls[2] = <<"y", run.h>>

C2_Witness == C2Case /\ run.pc = "done" /\ inp.variant = "gcg"
              /\ inp.lr_x = Q(4) /\ inp.x0[1] # Zeros(Len(inp.b))

CallPcs == {"warm_h1", "warm_h2", "h_1", "h_2"}

PendingGrad == IF run.pc \in {"warm_h1", "h_1"} THEN inp.grad_x ELSE inp.grad_y

PendingVec ==
    LET v == IF run.pc = "warm_h1" THEN run.x ELSE run.p
    IN  IF run.pc \in {"warm_h2", "h_2"} THEN run.h
        ELSE IF inp.variant = "gcg" THEN Scale(run.lr_x, v) ELSE v

C3Step ==
    /\ (mode = "solve" /\ run.pc \in CallPcs
           /\ (HasNaN(PendingGrad) \/ HasNaN(PendingVec))) =>
          /\ run'.pc = "raised" /\ run'.err \in NonFiniteInput
          /\ run'.xg = run.xg /\ run'.yg = run.yg
          /\ run'.events = run.events
          /\ run'.ret = <<>>
    /\ run.pc = "raised" => run' = run

\* C3: an Hvp_vec call whose grad_vec or vec contains NaN raises the
\* non-finite-input error with no buffer touched, no reducer method and no
\* differentiation pass; the solve ends there and issues no further call.
C3_NaNFailsFirst == [][C3Step]_vars

C3_Witness == /\ mode = "solve" /\ run.pc = "raised" /\ run.err = ErrVecNaN
              /\ inp.backward /\ inp.y_reducer # <<>> /\ inp.rebuild
              /\ run.yg = << <<Ones(inp.ny)>> >>

\* C4 as stated: every solve whose grad_x and b differ in shape ends in the
\* shape-mismatch error and returns nothing.
C4_Claim ==
    (mode = "solve" /\ ~ShapesMatch(inp) /\ Terminated(run)) =>
        run.err = ErrShape /\ run.ret = <<>>

\* C5 as stated: every solve with NaN-free inputs, matching shapes and a
\* step cap N >= 1 ends by returning, after at most N operator applications.
C5_Claim ==
    (mode = "solve" /\ NaNFree(inp) /\ ShapesMatch(inp) /\ Terminated(run)) =>
        run.ret # <<>> /\ run.apps <= StepCap(inp)

\* C6 as stated: the returned count is the number of loop iterations plus one.
C6_Original ==
    (mode = "solve" /\ run.ret # <<>>) => run.ret[1].count = run.iters + 1

\* C6 amended: the returned count is 1 when the initial convergence check
\* passes with zero iterations and k when the loop ran k >= 1 iterations.
C6_Amended ==
    (mode = "solve" /\ run.ret # <<>>) =>
        run.ret[1].count = IF run.iters = 0 THEN 1 ELSE run.iters

C6_Witness == mode = "solve" /\ run.ret # <<>> /\ run.iters = 2
              /\ run.ret[1].count = 2

Count(seq, e) == Cardinality({k \in 1..Len(seq) : seq[k] = e})

\* C9 as stated: with both reducers and rebuild = true in accumulation mode,
\* each reducer's _rebuild_buckets is invoked at most once per solve, and
\* prepare_for_backward precedes every backward pass, after the rebuild step
\* when there is one.
C9_Claim ==
    (mode = "solve" /\ inp.variant = "gcg" /\ inp.backward
        /\ inp.x_reducer # <<>> /\ inp.y_reducer # <<>> /\ inp.rebuild) =>
        /\ Count(run.events, <<"x_reducer", "_rebuild_buckets">>) <= 1
        /\ Count(run.events, <<"y_reducer", "_rebuild_buckets">>) <= 1
        /\ \A k \in 1..Len(run.events) :
              /\ run.events[k][2] = "backward" =>
                    k > 1 /\ run.events[k - 1][2] = "prepare_for_backward"
              /\ run.events[k][2] = "_rebuild_buckets" =>
                    /\ k < Len(run.events)
                    /\ run.events[k + 1] = <<run.events[k][1], "prepare_for_backward">>

\* what holds instead: one rebuild step per oracle call that got past its
\* input checks, each directly followed by prepare_for_backward
C9_RebuildPerCall ==
    (mode = "solve" /\ inp.variant = "gcg" /\ inp.backward
        /\ inp.x_reducer # <<>> /\ inp.y_reducer # <<>> /\ inp.rebuild) =>
        /\ Count(run.events, <<"x_reducer", "_rebuild_buckets">>)
              = Count(run.events, <<"x_reducer", "prepare_for_backward">>)
        /\ Count(run.events, <<"y_reducer", "_rebuild_buckets">>)
              = Count(run.events, <<"y_reducer", "prepare_for_backward">>)
        /\ Count(run.events, <<"x_reducer", "_rebuild_buckets">>)
              + Count(run.events, <<"y_reducer", "_rebuild_buckets">>)
              = Count(run.events, <<"params", "zero_grad">>)

\* ------------------------------------------------------------------------
\* Both solvers on the same arguments: conjugate_gradient (run), then
\* general_conjugate_gradient in graph mode (run2), lr_x = lr_y = 1
\* ------------------------------------------------------------------------
cg_Step(in, s) ==
    CASE s.pc = "start"   -> cg_Start(in, s)
      [] s.pc = "warm_h1" -> cg_WarmH1(in, s)
      [] s.pc = "warm_h2" -> cg_WarmH2(in, s)
      [] s.pc = "check"   -> cg_Check(in, s)
      [] s.pc = "loop"    -> cg_LoopHead(in, s)
      [] s.pc = "h_1"     -> cg_H1(in, s)
      [] s.pc = "h_2"     -> cg_H2(in, s)
      [] s.pc = "after"   -> cg_After(in, s)

gcg_Step(in, s) ==
    CASE s.pc = "start"   -> gcg_Start(in, s)
      [] s.pc = "warm_h1" -> gcg_WarmH1(in, s)
      [] s.pc = "warm_h2" -> gcg_WarmH2(in, s)
      [] s.pc = "check"   -> gcg_Check(in, s)
      [] s.pc = "loop"    -> gcg_LoopHead(in, s)
      [] s.pc = "h_1"     -> gcg_H1(in, s)
      [] s.pc = "h_2"     -> gcg_H2(in, s)
      [] s.pc = "after"   -> gcg_After(in, s)

GraphConfig == [variant |-> "cg", backward |-> FALSE, reducers |-> FALSE,
                rebuild |-> FALSE, stale |-> FALSE]

InitPair ==
    /\ mode = "pair"
    /\ DrawInp({GraphConfig}, {<<One, One>>})
    /\ run = InitRun(inp)
    /\ run2 = InitRun(inp)
    /\ orc = IdleOrc

PairCG ==
    /\ mode = "pair" /\ ~Terminated(run)
    /\ run' = cg_Step(inp, run)
    /\ UNCHANGED <<mode, inp, run2, orc>>

PairGCG ==
    /\ mode = "pair" /\ Terminated(run) /\ ~Terminated(run2)
    /\ run2' = gcg_Step(inp, run2)
    /\ UNCHANGED <<mode, inp, run, orc>>

NextPair == PairCG \/ PairGCG

SpecPair == InitPair /\ [][NextPair]_vars

\* C7 as stated: on the same arguments with unit learning rates in graph
\* mode the two solvers issue the same Hvp calls with the same probe
\* vectors, stop at the same step and return the same x and step count.
C7_Claim ==
    (mode = "pair" /\ Terminated(run) /\ Terminated(run2)) =>
        /\ run.calls = run2.calls
        /\ run.pc = run2.pc /\ run.iters = run2.iters
        /\ run.ret = run2.ret

\* the two solvers do agree whenever the shapes of grad_x and b match
C7_MatchingShapes ==
    (mode = "pair" /\ ShapesMatch(inp) /\ Terminated(run) /\ Terminated(run2)) =>
        /\ run.calls = run2.calls
        /\ run.pc = run2.pc /\ run.iters = run2.iters
        /\ run.ret = run2.ret /\ run.err = run2.err

\* ------------------------------------------------------------------------
\* The oracle and the vectorizer called directly, one call after another,
\* on one parameter list and one retained graph
\* ------------------------------------------------------------------------
OrcGraph == [D |-> orc.D, sizes |-> orc.sizes, used |-> orc.used]

NoOp == [op |-> "none", backward |-> FALSE, trigger |-> <<>>, reducer |-> <<>>,
         rebuild |-> FALSE, vec |-> <<>>, before |-> <<>>,
         err |-> NoErr, out |-> <<>>, events |-> <<>>]

ParamLists == {<<1>>, <<1, 1>>, <<2, 1>>}

\* how oracle calls are made: graph mode, or accumulation mode with or
\* without the trigger scalar and the reducer
CallKinds ==
    {[backward |-> FALSE, trigger |-> <<>>, reducer |-> <<>>, rebuild |-> FALSE]}
    \cup {[backward |-> TRUE, trigger |-> tr, reducer |-> rd[1], rebuild |-> rd[2]] :
            tr \in {<<>>, <<One>>},
            rd \in {<< <<>>, FALSE >>, << <<"reducer">>, TRUE >>}}

Probes == UNION {{Ones(n), NaNVec(n)} : n \in Dims}

InitOracle ==
    /\ mode = "oracle"
    /\ \E sizes \in ParamLists, nc \in Dims, gnan \in BOOLEAN :
         \E D \in [1..SumSeq(sizes) -> [1..nc -> DVals]],
            used \in [1..Len(sizes) -> BOOLEAN] :
           /\ \A j \in 1..Len(sizes) :
                 ~used[j] => \A e \in 1..sizes[j] :
                                D[Offset(sizes, j) + e] = Zeros(nc)
           /\ orc = [sizes |-> sizes, used |-> used, D |-> D,
                     grad_vec |-> IF gnan THEN NaNVec(nc) ELSE Ones(nc),
                     grads |-> [j \in 1..Len(sizes) |-> <<>>],
                     prev_op |-> "none", prev_out |-> <<>>, last |-> NoOp]
    /\ inp = <<>> /\ run = <<>> /\ run2 = <<>>

OracleHvp ==
    /\ mode = "oracle"
    /\ \E kind \in CallKinds, vec \in Probes :
         LET out == Hvp_vec(orc.grad_vec, OrcGraph, orc.grads, vec,
                            kind.backward, kind.trigger, kind.reducer, kind.rebuild)
         IN  orc' = [orc EXCEPT
                 !.grads = out.grads,
                 !.prev_op = orc.last.op, !.prev_out = orc.last.out,
                 !.last = [op |-> "Hvp_vec", backward |-> kind.backward,
                           trigger |-> kind.trigger, reducer |-> kind.reducer,
                           rebuild |-> kind.rebuild, vec |-> vec,
                           before |-> orc.grads, err |-> out.err,
                           out |-> out.hvp, events |-> out.events]]
    /\ UNCHANGED <<mode, inp, run, run2>>

OracleVectorize ==
    /\ mode = "oracle"
    /\ LET out == vectorize_grad(orc.sizes, orc.grads)
       IN  orc' = [orc EXCEPT
               !.grads = out.grads,
               !.prev_op = orc.last.op, !.prev_out = orc.last.out,
               !.last = [NoOp EXCEPT !.op = "vectorize_grad",
                                     !.before = orc.grads, !.out = out.vec]]
    /\ UNCHANGED <<mode, inp, run, run2>>

\* the parameter store's owner (a backward pass of the training loop)
\* leaves a gradient in the buffer of some parameter
ExternalWrite ==
    /\ mode = "oracle"
    /\ \E j \in 1..Len(orc.sizes) :
         orc' = [orc EXCEPT !.grads[j] = <<Ones(orc.sizes[j])>>,
                            !.prev_op = orc.last.op, !.prev_out = orc.last.out,
                            !.last = [NoOp EXCEPT !.op = "write",
                                                  !.before = orc.grads]]
    /\ UNCHANGED <<mode, inp, run, run2>>

NextOracle == OracleHvp \/ OracleVectorize \/ ExternalWrite

SpecOracle == InitOracle /\ [][NextOracle]_vars

Last == orc.last

\* C8 as stated: with no reducer, an accumulation-mode call returns what the
\* graph-mode call returns for the same grad_vec, params and vec, whatever
\* the buffers held before.
C8_Claim ==
    (mode = "oracle" /\ Last.op = "Hvp_vec" /\ Last.backward
        /\ Last.reducer = <<>>) =>
        LET ref == Hvp_vec(orc.grad_vec, OrcGraph, Last.before, Last.vec,
                           FALSE, <<>>, <<>>, FALSE)
        IN  Last.err = ref.err /\ Last.out = ref.hvp

\* the same, for the calls that pass a trigger scalar
C8_WithTrigger ==
    (mode = "oracle" /\ Last.op = "Hvp_vec" /\ Last.backward
        /\ Last.reducer = <<>> /\ Last.trigger # <<>>) =>
        LET ref == Hvp_vec(orc.grad_vec, OrcGraph, Last.before, Last.vec,
                           FALSE, <<>>, <<>>, FALSE)
        IN  Last.err = ref.err /\ Last.out = ref.hvp

====
